---- MODULE Spec2Model ----
(***************************************************************************)
(* Model of crates/cairo-lang-runner/src/wasm_cairo_interface.rs:          *)
(* run_with_input_program_string (the compile -> lower -> execute ->       *)
(* report pipeline) and generate_run_result_log (the result renderer).     *)
(*                                                                         *)
(* Strings are TLA+ strings, built with \o exactly where the code pushes   *)
(* onto result_string or prints to stdout.  An Option is a sequence of     *)
(* length at most one: <<>> is None and <<v>> is Some(v).                  *)
(***************************************************************************)
EXTENDS Integers, Sequences, FiniteSets, TLC

VARIABLES
    pc,                 \* position in run_with_input_program_string / generate_run_result_log
    stages,             \* the statements of the pipeline that have run, in order
    available_gas,      \* argument: Option<usize>
    allow_warnings,     \* argument
    print_full_memory,  \* argument
    run_profiler,       \* argument
    use_dbg_print_hint, \* argument
    diag,               \* diagnostics the database holds for the source text
    sierra_program,     \* the lowered program: its enrichment state and gas requirement
    runner,             \* Option: the engine, as constructed
    result,             \* the RunResultStarknet handed to the renderer
    result_string,      \* generate_run_result_log's local String
    stdout,             \* what generate_run_result_log printed
    felts,              \* the panic values iterator
    first,              \* the local flag of the panic loop
    cells,              \* the memory cells the dump loop has still to visit
    log,                \* LogDatabase's "log_file" text (process-wide)
    ret,                \* what the current invocation returned
    history             \* one entry per finished render: the log it saw and its Report

vars == <<pc, stages, available_gas, allow_warnings, print_full_memory, run_profiler,
          use_dbg_print_hint, diag, sierra_program, runner, result, result_string,
          stdout, felts, first, cells, log, ret, history>>

args == <<available_gas, allow_warnings, print_full_memory, run_profiler,
          use_dbg_print_hint>>

renderLocals == <<result_string, stdout, felts, first, cells>>

pipelineState == <<stages, diag, sierra_program, runner>>

(***************************************************************************)
(* Bounds of the model.                                                    *)
(***************************************************************************)
MaxVals == 2        \* longest value sequence handed to the renderer directly
MaxMem == 2         \* longest memory trace handed to the renderer directly
MaxRunVals == 1     \* longest value sequence the engine returns in a pipeline run
MaxRunMem == 1      \* longest memory trace the engine returns in a pipeline run
MaxGas == 1         \* largest available_gas the caller supplies

None == <<>>
Some(v) == <<v>>

RECURSIVE SeqsUpTo(_, _)
SeqsUpTo(S, n) ==
    IF n = 0 THEN {<<>>}
    ELSE LET shorter == SeqsUpTo(S, n - 1)
         IN  shorter \cup {Append(s, x) : s \in {t \in shorter : Len(t) = n - 1}, x \in S}

(***************************************************************************)
(* Values the collaborators hand to this unit.                             *)
(***************************************************************************)
\* Stand-in for BYTE_ARRAY_MAGIC, the felt that announces an embedded string.
Magic == 46

Felts == {1, 2, Magic}

\* A memory cell is Option<Felt252>.
MemCells == {None, Some(12)}

\* The texts LogDatabase may hold under "log_file".
Logs == {"", "dbg\n"}

Diags == {"clean", "warnings", "errors"}

RunValues(n) ==
    [tag : {"Success", "Panic"}, values : SeqsUpTo(Felts, n)]

\* Every RunResultStarknet {value, gas_counter, memory} within the bounds.
RunResults ==
    [value : RunValues(MaxVals),
     gas_counter : {None} \cup {Some(g) : g \in 0..MaxGas},
     memory : SeqsUpTo(MemCells, MaxMem)]

(***************************************************************************)
(* Formatting.                                                             *)
(***************************************************************************)
Digit(d) == SubSeq("0123456789", d + 1, d + 1)

\* Display of an unsigned number: its decimal digits.
RECURSIVE DecStr(_)
DecStr(n) == IF n < 10 THEN Digit(n) ELSE DecStr(n \div 10) \o Digit(n % 10)

\* {values:?} of a Vec: the elements separated by ", " inside brackets.
RECURSIVE DebugElems(_)
DebugElems(values) ==
    IF values = <<>> THEN ""
    ELSE IF Len(values) = 1 THEN DecStr(values[1])
    ELSE DecStr(values[1]) \o ", " \o DebugElems(Tail(values))

DebugVec(values) == "[" \o DebugElems(values) \o "]"

\* as_cairo_short_string of the payload felt of an embedded string.
ShortText(f) == CASE f = 1 -> "a" [] f = 2 -> "b" [] OTHER -> "?"

\* format_next_item: None on an exhausted iterator; a Magic felt followed by a
\* payload decodes to one string item and consumes both; any other felt is one
\* numeric item.
FormatNextItem(fs) ==
    IF fs = <<>> THEN None
    ELSE IF fs[1] = Magic /\ Len(fs) >= 2
         THEN Some([item |-> [item |-> ShortText(fs[2]), is_string |-> TRUE],
                    rest |-> Tail(Tail(fs))])
         ELSE Some([item |-> [item |-> DecStr(fs[1]), is_string |-> FALSE],
                    rest |-> Tail(fs)])

\* FormattedItem::quote_if_string
QuoteIfString(item) ==
    IF item.is_string THEN "\"" \o item.item \o "\"" ELSE item.item

\* LogDatabase::get_file_text("log_file")
GetFileText == log

(***************************************************************************)
(* generate_run_result_log, one action per statement group.  print! and    *)
(* println! write to stdout; push_str writes to result_string.             *)
(***************************************************************************)
Emit(printed, pushed) ==
    /\ stdout' = stdout \o printed
    /\ result_string' = result_string \o pushed

\* Faulty variant: the String receives the log with the line break println! is given.
RenderDbgPrintSameFormat ==
    /\ pc = "r_dbg"
    /\ IF use_dbg_print_hint
       THEN Emit(GetFileText \o "\n" \o "\n", GetFileText \o "\n")
       ELSE UNCHANGED <<stdout, result_string>>
    /\ pc' = "r_match"
    /\ UNCHANGED <<args, pipelineState, result, felts, first, cells, log, ret, history>>

\* Faulty variant: the captured log is emitted whether or not use_dbg_print_hint is set.
RenderDbgPrintUnguarded ==
    /\ pc = "r_dbg"
    /\ Emit(GetFileText \o "\n" \o "\n", GetFileText)
    /\ pc' = "r_match"
    /\ UNCHANGED <<args, pipelineState, result, felts, first, cells, log, ret, history>>

\* lines 110-113: the captured log, printed with "{}\n" through println!.
RenderDbgPrint ==
    /\ pc = "r_dbg"
    /\ IF use_dbg_print_hint
       THEN Emit(GetFileText \o "\n" \o "\n", GetFileText)
       ELSE UNCHANGED <<stdout, result_string>>
    /\ pc' = "r_match"
    /\ UNCHANGED <<args, pipelineState, result, felts, first, cells, log, ret, history>>

\* lines 115-122: the Success arm.
RenderSuccess ==
    /\ pc = "r_match"
    /\ result.value.tag = "Success"
    /\ Emit("Run completed successfully, returning " \o DebugVec(result.value.values) \o "\n",
            "Run completed successfully, returning " \o DebugVec(result.value.values) \o "\n")
    /\ pc' = "r_gas"
    /\ UNCHANGED <<args, pipelineState, result, felts, first, cells, log, ret, history>>

\* lines 123-127: the Panic arm up to the loop.
RenderPanicOpen ==
    /\ pc = "r_match"
    /\ result.value.tag = "Panic"
    /\ Emit("Run panicked with [", "Run panicked with [")
    /\ felts' = result.value.values
    /\ first' = TRUE
    /\ pc' = "r_items"
    /\ UNCHANGED <<args, pipelineState, result, cells, log, ret, history>>

\* Faulty variant: the flag is cleared after the first item, so separators are emitted.
RenderPanicItemSeparated ==
    /\ pc = "r_items"
    /\ FormatNextItem(felts) # None
    /\ LET next == FormatNextItem(felts)[1]
           quoted == QuoteIfString(next.item)
       IN  /\ IF ~first
              THEN Emit(", " \o quoted, ", " \o quoted)
              ELSE Emit(quoted, quoted)
           /\ first' = FALSE
           /\ felts' = next.rest
    /\ pc' = "r_items"
    /\ UNCHANGED <<args, pipelineState, result, cells, log, ret, history>>

\* lines 128-137: one iteration of the while-let loop.
RenderPanicItem ==
    /\ pc = "r_items"
    /\ FormatNextItem(felts) # None
    /\ LET next == FormatNextItem(felts)[1]
           quoted == QuoteIfString(next.item)
       IN  /\ IF ~first
              THEN /\ Emit(", " \o quoted, ", " \o quoted)
                   /\ first' = FALSE
              ELSE /\ Emit(quoted, quoted)
                   /\ first' = first
           /\ felts' = next.rest
    /\ pc' = "r_items"
    /\ UNCHANGED <<args, pipelineState, result, cells, log, ret, history>>

\* lines 128, 138-139: the loop ends and the bracket is closed.
RenderPanicClose ==
    /\ pc = "r_items"
    /\ FormatNextItem(felts) = None
    /\ Emit("]." \o "\n", "].\n")
    /\ pc' = "r_gas"
    /\ UNCHANGED <<args, pipelineState, result, felts, first, cells, log, ret, history>>

\* lines 142-145
RenderGas ==
    /\ pc = "r_gas"
    /\ IF result.gas_counter # None
       THEN Emit("Remaining gas: " \o DecStr(result.gas_counter[1]) \o "\n",
                 "Remaining gas: " \o DecStr(result.gas_counter[1]) \o "\n")
       ELSE UNCHANGED <<stdout, result_string>>
    /\ pc' = "r_mem"
    /\ UNCHANGED <<args, pipelineState, result, felts, first, cells, log, ret, history>>

\* lines 146-148: the dump is opened, or skipped.
RenderMemoryOpen ==
    /\ pc = "r_mem"
    /\ IF print_full_memory
       THEN /\ Emit("Full memory: [", "Full memory: [")
            /\ cells' = result.memory
            /\ pc' = "r_cells"
       ELSE /\ UNCHANGED <<stdout, result_string, cells>>
            /\ pc' = "r_ret"
    /\ UNCHANGED <<args, pipelineState, result, felts, first, log, ret, history>>

\* Faulty variant: the last cell is written without its trailing separator.
RenderMemoryCellTrimmed ==
    /\ pc = "r_cells"
    /\ cells # <<>>
    /\ LET sep == IF Tail(cells) = <<>> THEN "" ELSE ", "
       IN  IF Head(cells) = None
           THEN Emit("_" \o sep, "_" \o sep)
           ELSE Emit(DecStr(Head(cells)[1]) \o sep, DecStr(Head(cells)[1]) \o sep)
    /\ cells' = Tail(cells)
    /\ pc' = "r_cells"
    /\ UNCHANGED <<args, pipelineState, result, felts, first, log, ret, history>>

\* lines 149-160: one memory cell.
RenderMemoryCell ==
    /\ pc = "r_cells"
    /\ cells # <<>>
    /\ IF Head(cells) = None
       THEN Emit("_, ", "_, ")
       ELSE Emit(DecStr(Head(cells)[1]) \o ", ", DecStr(Head(cells)[1]) \o ", ")
    /\ cells' = Tail(cells)
    /\ pc' = "r_cells"
    /\ UNCHANGED <<args, pipelineState, result, felts, first, log, ret, history>>

\* line 161: the closing bracket goes to result_string only.
RenderMemoryClose ==
    /\ pc = "r_cells"
    /\ cells = <<>>
    /\ Emit("", "]\n")
    /\ pc' = "r_ret"
    /\ UNCHANGED <<args, pipelineState, result, felts, first, cells, log, ret, history>>

\* line 163: Ok(result_string)
RenderReturn ==
    /\ pc = "r_ret"
    /\ ret' = [kind |-> "Ok", msg |-> result_string]
    /\ history' = Append(history, [log |-> log, report |-> result_string])
    /\ pc' = "done"
    /\ UNCHANGED <<args, pipelineState, result, renderLocals, log>>

Render ==
    \/ RenderDbgPrint
    \/ RenderSuccess
    \/ RenderPanicOpen
    \/ RenderPanicItem
    \/ RenderPanicClose
    \/ RenderGas
    \/ RenderMemoryOpen
    \/ RenderMemoryCell
    \/ RenderMemoryClose
    \/ RenderReturn

(***************************************************************************)
(* The renderer on its own: every outcome and flag combination, invoked    *)
(* twice with the same arguments while the owner of the captured log may   *)
(* rewrite it between the two invocations.                                 *)
(***************************************************************************)
NoReturn == [kind |-> "none", msg |-> ""]

InitRender ==
    /\ pc = "r_dbg"
    /\ stages = <<>>
    /\ available_gas = None
    /\ allow_warnings = FALSE
    /\ run_profiler = FALSE
    /\ print_full_memory \in BOOLEAN
    /\ use_dbg_print_hint \in BOOLEAN
    /\ diag = "clean"
    /\ sierra_program = None
    /\ runner = None
    /\ result \in RunResults
    /\ result_string = ""
    /\ stdout = ""
    /\ felts = <<>>
    /\ first = TRUE
    /\ cells = <<>>
    /\ log \in Logs
    /\ ret = NoReturn
    /\ history = <<>>

\* The owner of the captured log rewrites it while no invocation is running.
ExternalLogWrite ==
    /\ pc = "done"
    /\ \E text \in Logs \ {log} : log' = text
    /\ UNCHANGED <<pc, args, pipelineState, result, renderLocals, ret, history>>

\* A second invocation with the same outcome and the same flags.
Reinvoke ==
    /\ pc = "done"
    /\ Len(history) = 1
    /\ pc' = "r_dbg"
    /\ result_string' = ""
    /\ stdout' = ""
    /\ ret' = NoReturn
    /\ UNCHANGED <<args, pipelineState, result, felts, first, cells, log, history>>

NextRender ==
    \/ Render
    \/ ExternalLogWrite
    \/ Reinvoke

SpecRender == InitRender /\ [][NextRender]_vars

(***************************************************************************)
(* The collaborators of run_with_input_program_string.                     *)
(***************************************************************************)
\* DiagnosticsReporter::check: TRUE when the diagnostics are fatal (errors
\* always, warnings unless allow_warnings() was applied to the reporter).
ReporterCheck(d, allowWarnings) ==
    d = "errors" \/ (d = "warnings" /\ ~allowWarnings)

\* get_diagnostics_as_string
GetDiagnosticsAsString(d) ==
    CASE d = "errors" -> "error: E\n"
      [] d = "warnings" -> "warning: W\n"
      [] OTHER -> ""

\* What run_function_with_starknet_context may return for an engine built with
\* or without a cost model and called with the given budget: the gas counter is
\* present exactly when a budget is metered, and never exceeds it.
EngineResults(metering, gas) ==
    [value : RunValues(MaxRunVals),
     gas_counter : IF metering /\ gas # None
                   THEN {Some(g) : g \in 0..gas[1]}
                   ELSE {None},
     memory : SeqsUpTo(MemCells, MaxRunMem)]

(***************************************************************************)
(* run_with_input_program_string, one action per statement.                *)
(***************************************************************************)
Err(msg) == [kind |-> "Err", msg |-> msg]

\* The ? operator and anyhow::bail!: the invocation ends with the error.
Bail(msg) ==
    /\ pc' = "failed"
    /\ ret' = Err(msg)

NoResult ==
    [value |-> [tag |-> "Success", values |-> <<>>], gas_counter |-> None, memory |-> <<>>]

Init ==
    /\ pc = "build_db"
    /\ stages = <<>>
    /\ available_gas \in {None} \cup {Some(g) : g \in 0..MaxGas}
    /\ allow_warnings \in BOOLEAN
    /\ print_full_memory \in BOOLEAN
    /\ run_profiler \in BOOLEAN
    /\ use_dbg_print_hint \in BOOLEAN
    /\ diag = "clean"
    /\ sierra_program = None
    /\ runner = None
    /\ result = NoResult
    /\ result_string = ""
    /\ stdout = ""
    /\ felts = <<>>
    /\ first = TRUE
    /\ cells = <<>>
    /\ log = ""
    /\ ret = NoReturn
    /\ history = <<>>

\* lines 30-37: RootDatabase::builder() ... build()?
BuildDb ==
    /\ pc = "build_db"
    /\ stages' = Append(stages, "build_db")
    /\ \/ pc' = "setup_project" /\ ret' = ret
       \/ Bail("db: build failed")
    /\ UNCHANGED <<args, diag, sierra_program, runner, result, renderLocals, log, history>>

\* line 39: setup_project_with_input_string(...)?; the source text decides the
\* diagnostics the database will report.
SetupProject ==
    /\ pc = "setup_project"
    /\ stages' = Append(stages, "setup_project")
    /\ \/ /\ diag' \in Diags
          /\ pc' = "diagnostics_check"
          /\ ret' = ret
       \/ /\ Bail("setup: bad project")
          /\ diag' = diag
    /\ UNCHANGED <<args, sierra_program, runner, result, renderLocals, log, history>>

\* Faulty variant: allow_warnings() is applied to the reporter unconditionally.
DiagnosticsGateWarningsAllowed ==
    /\ pc = "diagnostics_check"
    /\ stages' = Append(stages, "diagnostics_check")
    /\ IF ReporterCheck(diag, TRUE)
       THEN Bail("failed to compile:\n " \o GetDiagnosticsAsString(diag))
       ELSE pc' = "get_sierra_program" /\ ret' = ret
    /\ UNCHANGED <<args, diag, sierra_program, runner, result, renderLocals, log, history>>

\* lines 41-49: the reporter, with warnings allowed on request, and the gate.
DiagnosticsGate ==
    /\ pc = "diagnostics_check"
    /\ stages' = Append(stages, "diagnostics_check")
    /\ IF ReporterCheck(diag, allow_warnings)
       THEN Bail("failed to compile:\n " \o GetDiagnosticsAsString(diag))
       ELSE pc' = "get_sierra_program" /\ ret' = ret
    /\ UNCHANGED <<args, diag, sierra_program, runner, result, renderLocals, log, history>>

\* lines 51-55: db.get_sierra_program(..).to_option().with_context(..)?
GetSierraProgram ==
    /\ pc = "get_sierra_program"
    /\ stages' = Append(stages, "get_sierra_program")
    /\ \/ /\ \E req \in BOOLEAN :
               sierra_program' = Some([ids |-> "internal", requires_gas_counter |-> req])
          /\ pc' = "enrich_function_names"
          /\ ret' = ret
       \/ /\ Bail("Compilation failed without any diagnostics.")
          /\ sierra_program' = sierra_program
    /\ UNCHANGED <<args, diag, runner, result, renderLocals, log, history>>

\* lines 56-57: replacer.enrich_function_names(&mut sierra_program)
EnrichFunctionNames ==
    /\ pc = "enrich_function_names"
    /\ stages' = Append(stages, "enrich_function_names")
    /\ sierra_program' = Some([sierra_program[1] EXCEPT !.ids = "function_names"])
    /\ pc' = "requires_gas_counter"
    /\ UNCHANGED <<args, diag, runner, result, renderLocals, log, ret, history>>

\* The message of line 59 (its two backquotes cannot be written in a string here).
BudgetRequired == "Program requires gas counter, please provide --available-gas argument."

\* Faulty variant: the check looks at the program alone, not at available_gas.
BudgetValidatorIgnoresBudget ==
    /\ pc = "requires_gas_counter"
    /\ stages' = Append(stages, "requires_gas_counter")
    /\ IF sierra_program[1].requires_gas_counter
       THEN Bail(BudgetRequired)
       ELSE pc' = "get_contracts_info" /\ ret' = ret
    /\ UNCHANGED <<args, diag, sierra_program, runner, result, renderLocals, log, history>>

\* lines 58-60: the budget validator.
BudgetValidator ==
    /\ pc = "requires_gas_counter"
    /\ stages' = Append(stages, "requires_gas_counter")
    /\ IF available_gas = None /\ sierra_program[1].requires_gas_counter
       THEN Bail(BudgetRequired)
       ELSE pc' = "get_contracts_info" /\ ret' = ret
    /\ UNCHANGED <<args, diag, sierra_program, runner, result, renderLocals, log, history>>

\* Faulty variant: the engine is constructed right after the metadata, from the
\* program replacer.apply has not been applied to.
GetContractsInfoThenRunner ==
    /\ pc = "get_contracts_info"
    /\ stages' = Append(stages, "get_contracts_info")
    /\ \/ pc' = "runner_new" /\ ret' = ret
       \/ Bail("contracts: info failed")
    /\ UNCHANGED <<args, diag, sierra_program, runner, result, renderLocals, log, history>>

\* line 62: get_contracts_info(db, main_crate_ids, &replacer)?
GetContractsInfo ==
    /\ pc = "get_contracts_info"
    /\ stages' = Append(stages, "get_contracts_info")
    /\ \/ pc' = "replacer_apply" /\ ret' = ret
       \/ Bail("contracts: info failed")
    /\ UNCHANGED <<args, diag, sierra_program, runner, result, renderLocals, log, history>>

\* line 63: let sierra_program = replacer.apply(&sierra_program)
ReplacerApply ==
    /\ pc = "replacer_apply"
    /\ stages' = Append(stages, "replacer_apply")
    /\ sierra_program' = Some([sierra_program[1] EXCEPT !.ids = "debug_names"])
    /\ pc' = "runner_new"
    /\ UNCHANGED <<args, diag, runner, result, renderLocals, log, ret, history>>

\* lines 65-72: SierraCasmRunner::new(program, metering, contracts_info, profiling)
RunnerNew ==
    /\ pc = "runner_new"
    /\ stages' = Append(stages, "runner_new")
    /\ \/ /\ runner' = Some([program |-> sierra_program[1].ids,
                             metering |-> available_gas # None,
                             profiling |-> run_profiler])
          /\ pc' = "find_function"
          /\ ret' = ret
       \/ /\ Bail("runner: setup failed")
          /\ runner' = runner
    /\ UNCHANGED <<args, diag, sierra_program, result, renderLocals, log, history>>

\* line 76: runner.find_function("::main")
FindFunction ==
    /\ pc = "find_function"
    /\ stages' = Append(stages, "find_function")
    /\ \/ pc' = "run_function" /\ ret' = ret
       \/ Bail("runner: function ::main not found")
    /\ UNCHANGED <<args, diag, sierra_program, runner, result, renderLocals, log, history>>

\* Faulty variant: the function is run without the caller's budget.
RunFunctionWithoutBudget ==
    /\ pc = "run_function"
    /\ stages' = Append(stages, "run_function")
    /\ \/ /\ result' \in EngineResults(runner[1].metering, None)
          /\ log' \in Logs
          /\ pc' = "generate_run_result_log"
          /\ ret' = ret
       \/ /\ Bail("runner: execution failed")
          /\ UNCHANGED <<result, log>>
    /\ UNCHANGED <<args, diag, sierra_program, runner, renderLocals, history>>

\* lines 74-82: run_function_with_starknet_context(func, &[], available_gas, ..);
\* the program's debug prints land in the captured log while it runs.
RunFunction ==
    /\ pc = "run_function"
    /\ stages' = Append(stages, "run_function")
    /\ \/ /\ result' \in EngineResults(runner[1].metering, available_gas)
          /\ log' \in Logs
          /\ pc' = "generate_run_result_log"
          /\ ret' = ret
       \/ /\ Bail("runner: execution failed")
          /\ UNCHANGED <<result, log>>
    /\ UNCHANGED <<args, diag, sierra_program, runner, renderLocals, history>>

\* lines 100, 103-108: the call of the renderer and its empty String.
GenerateRunResultLog ==
    /\ pc = "generate_run_result_log"
    /\ stages' = Append(stages, "generate_run_result_log")
    /\ result_string' = ""
    /\ stdout' = ""
    /\ pc' = "r_dbg"
    /\ UNCHANGED <<args, diag, sierra_program, runner, result, felts, first, cells, log,
                   ret, history>>

Next ==
    \/ BuildDb
    \/ SetupProject
    \/ DiagnosticsGate
    \/ GetSierraProgram
    \/ EnrichFunctionNames
    \/ BudgetValidator
    \/ GetContractsInfo
    \/ ReplacerApply
    \/ RunnerNew
    \/ FindFunction
    \/ RunFunction
    \/ GenerateRunResultLog
    \/ Render

Spec == Init /\ [][Next]_vars

(***************************************************************************)
(* Vocabulary of the properties.                                           *)
(***************************************************************************)
StartsWith(s, p) == Len(s) >= Len(p) /\ SubSeq(s, 1, Len(p)) = p

EndsWith(s, p) == Len(s) >= Len(p) /\ SubSeq(s, Len(s) - Len(p) + 1, Len(s)) = p

Contains(s, p) == \E i \in 1..(Len(s) - Len(p) + 1) : SubSeq(s, i, i + Len(p) - 1) = p

Ran(stage) == \E i \in 1..Len(stages) : stages[i] = stage

LastStage == stages[Len(stages)]

IsPrefix(s, t) == Len(s) <= Len(t) /\ \A i \in 1..Len(s) : s[i] = t[i]

\* The decoded (and quoted-if-string) items of a panic's values, in order.
RECURSIVE DecodedItems(_)
DecodedItems(fs) ==
    IF FormatNextItem(fs) = None THEN <<>>
    ELSE <<QuoteIfString(FormatNextItem(fs)[1].item)>>
             \o DecodedItems(FormatNextItem(fs)[1].rest)

RECURSIVE JoinWith(_, _)
JoinWith(items, sep) ==
    IF items = <<>> THEN ""
    ELSE IF Len(items) = 1 THEN items[1]
    ELSE items[1] \o sep \o JoinWith(Tail(items), sep)

\* The sections of a Report, as the specification words them.
LogSection(text) == IF use_dbg_print_hint THEN text ELSE ""

SuccessLine ==
    "Run completed successfully, returning " \o DebugVec(result.value.values) \o "\n"

PanicLine(sep) ==
    "Run panicked with [" \o JoinWith(DecodedItems(result.value.values), sep) \o "].\n"

GasSection ==
    IF result.gas_counter = None THEN ""
    ELSE "Remaining gas: " \o DecStr(result.gas_counter[1]) \o "\n"

RECURSIVE MemoryEntries(_)
MemoryEntries(mem) ==
    IF mem = <<>> THEN ""
    ELSE (IF mem[1] = None THEN "_, " ELSE DecStr(mem[1][1]) \o ", ")
             \o MemoryEntries(Tail(mem))

MemorySection ==
    IF print_full_memory THEN "Full memory: [" \o MemoryEntries(result.memory) \o "]\n" ELSE ""

\* The log text the invocation that has just returned read.
SeenLog == history[Len(history)].log

Returned == pc = "done" /\ ret.kind = "Ok"

(***************************************************************************)
(* Properties of run_with_input_program_string (checked under Spec).       *)
(***************************************************************************)
FatalDiagnostics ==
    diag = "errors" \/ (diag = "warnings" /\ ~allow_warnings)

\* C1: once the diagnostics check has run on fatal diagnostics (errors always,
\* warnings too unless allow_warnings), the invocation has ended with the
\* "failed to compile" error, the check is the last statement that ran, and
\* neither get_sierra_program nor any later stage has run.
C1_DiagnosticsGateStops ==
    (Ran("diagnostics_check") /\ FatalDiagnostics) =>
        /\ pc = "failed"
        /\ ret.kind = "Err"
        /\ StartsWith(ret.msg, "failed to compile:\n ")
        /\ LastStage = "diagnostics_check"
        /\ ~Ran("get_sierra_program")
        /\ sierra_program = None
        /\ runner = None

C1_Witness ==
    /\ pc = "failed"
    /\ diag = "warnings"
    /\ ~allow_warnings
    /\ LastStage = "diagnostics_check"
    /\ ret = Err("failed to compile:\n warning: W\n")

\* C2: when the lowered program requires a gas counter and available_gas is
\* absent, a run that has reached the budget check has ended there with the
\* BudgetRequired error and no engine was constructed; and when available_gas
\* is present (0 included) the run never ends with BudgetRequired.
C2_BudgetValidation ==
    /\ ( /\ available_gas = None
         /\ sierra_program # None
         /\ sierra_program[1].requires_gas_counter
         /\ Ran("requires_gas_counter") ) =>
            /\ pc = "failed"
            /\ ret = Err(BudgetRequired)
            /\ LastStage = "requires_gas_counter"
            /\ runner = None
    /\ available_gas # None => ret # Err(BudgetRequired)
    /\ ( /\ sierra_program # None
         /\ ~sierra_program[1].requires_gas_counter ) => ret # Err(BudgetRequired)

C2_Witness ==
    /\ pc = "failed"
    /\ available_gas = None
    /\ sierra_program # None
    /\ sierra_program[1].requires_gas_counter
    /\ ret = Err(BudgetRequired)

\* A run with a budget of 0 on a program that requires a gas counter gets
\* past the budget check.
C2_WitnessZeroBudget ==
    /\ available_gas = Some(0)
    /\ sierra_program # None
    /\ sierra_program[1].requires_gas_counter
    /\ Returned

\* C6: the engine is built with a cost model exactly when available_gas was
\* supplied, and a Report the pipeline returns holds a "Remaining gas: N" line
\* exactly when available_gas was supplied, with N at most the supplied budget.
C6_GasLineIffBudget ==
    /\ runner # None => (runner[1].metering <=> available_gas # None)
    /\ Returned =>
        /\ Contains(ret.msg, "Remaining gas: ") <=> available_gas # None
        /\ available_gas # None =>
              \E n \in 0..available_gas[1] :
                  Contains(ret.msg, "Remaining gas: " \o DecStr(n) \o "\n")
        /\ \A n \in 0..(MaxGas + 1) :
              Contains(ret.msg, "Remaining gas: " \o DecStr(n) \o "\n") =>
                  available_gas # None /\ n <= available_gas[1]

C6_Witness ==
    /\ Returned
    /\ available_gas = Some(1)
    /\ Contains(ret.msg, "Remaining gas: 0\n")

\* The order of the statements in the code.
CodeOrder ==
    << "build_db", "setup_project", "diagnostics_check", "get_sierra_program",
       "enrich_function_names", "requires_gas_counter", "get_contracts_info",
       "replacer_apply", "runner_new", "find_function", "run_function",
       "generate_run_result_log" >>

\* The order with the replacement of identifiers by debug names inside the
\* lowering and enrichment stage, ahead of the budget validator.
ClaimedOrder ==
    << "build_db", "setup_project", "diagnostics_check", "get_sierra_program",
       "enrich_function_names", "replacer_apply", "requires_gas_counter",
       "get_contracts_info", "runner_new", "find_function", "run_function",
       "generate_run_result_log" >>

StagesFollow(order) ==
    /\ IsPrefix(stages, order)
    /\ pc = "failed" => (ret.kind = "Err" /\ ~ENABLED Next)
    /\ runner # None => runner[1].program = "debug_names"

\* C8 as stated: the stages run in the order database, diagnostics gate,
\* lowering and debug enrichment including the replacement of identifiers by
\* debug names, budget validator, contract metadata, engine construction,
\* entry-point lookup, execution, renderer; a failure is terminal; the engine
\* is built from the enriched program.
C8_ClaimedOrder == StagesFollow(ClaimedOrder)

\* C8 amended: the same, with the replacement of identifiers by debug names
\* (replacer.apply) running after the budget validator and the contract
\* metadata extractor, immediately before the engine is constructed; only the
\* enrichment of function names runs before the budget validator.
C8_CodeOrder == StagesFollow(CodeOrder)

C8_Witness ==
    /\ Returned
    /\ stages = CodeOrder
    /\ runner # None
    /\ runner[1].program = "debug_names"

(***************************************************************************)
(* Properties of generate_run_result_log (checked under SpecRender).       *)
(***************************************************************************)
PanicRendered == pc = "r_gas" /\ result.value.tag = "Panic"

\* C3: when the panic arm has finished, what it appended is exactly
\* "Run panicked with [", the quoted-if-string items with ", " between each
\* pair of consecutive items, "]." and a line break.
C3_PanicItemsSeparated ==
    PanicRendered => result_string = LogSection(log) \o PanicLine(", ")

\* C9: the flag first is TRUE in every reachable state, and when the panic arm
\* has finished, what it appended is "Run panicked with [", the items with
\* nothing between them, "]." and a line break; items 1 and 2 give
\* "Run panicked with [12].".
C9_SeparatorNeverEmitted ==
    /\ first = TRUE
    /\ PanicRendered => result_string = LogSection(log) \o PanicLine("")
    /\ (PanicRendered /\ result.value.values = <<1, 2>>) =>
           EndsWith(result_string, "Run panicked with [12].\n")

C9_Witness ==
    /\ PanicRendered
    /\ result.value.values = <<1, 2>>
    /\ ~use_dbg_print_hint
    /\ result_string = "Run panicked with [12].\n"

\* The outcome line of a returned Report: what lies between the log section
\* and the gas and memory sections.
OutcomeLineOf(report) ==
    SubSeq(report, Len(LogSection(SeenLog)) + 1,
           Len(report) - Len(GasSection) - Len(MemorySection))

\* C4: every invocation returns Ok, and the Report is, in this order, the
\* captured log (iff use_dbg_print_hint), exactly one outcome line (the
\* Success line with the debug rendering of the values, or a line that opens
\* with "Run panicked with [", holds every decoded item and closes with "]."
\* and a line break), the
\* "Remaining gas" line (iff the gas counter is present) and the "Full
\* memory" section (iff print_full_memory), with nothing else.
C4_ReportLayout ==
    /\ pc = "done" => ret.kind = "Ok"
    /\ pc = "done" =>
        LET report == ret.msg
            line == OutcomeLineOf(report)
        IN  /\ Len(report) >= Len(LogSection(SeenLog)) + Len(GasSection) + Len(MemorySection)
            /\ report = LogSection(SeenLog) \o line \o GasSection \o MemorySection
            /\ IF result.value.tag = "Success"
               THEN line = SuccessLine
               ELSE /\ StartsWith(line, "Run panicked with [")
                    /\ EndsWith(line, "].\n")
                    /\ ~Contains(line, "Run completed successfully")
                    /\ \A i \in 1..Len(DecodedItems(result.value.values)) :
                           Contains(line, DecodedItems(result.value.values)[i])
            /\ Contains(report, "Remaining gas: ") <=> result.gas_counter # None
            /\ Contains(report, "Full memory: [") <=> print_full_memory

C4_Witness ==
    /\ pc = "done"
    /\ use_dbg_print_hint
    /\ print_full_memory
    /\ result.value.tag = "Success"
    /\ ret = [kind |-> "Ok",
              msg |-> "dbg\nRun completed successfully, returning [1, 46]\nRemaining gas: 1\nFull memory: [_, 12, ]\n"]

\* C5: with print_full_memory the Report ends with "Full memory: [", one entry
\* per memory cell in memory order ("_, " for an empty cell, "<value>, " for an
\* occupied one, the last ", " kept), "]" and a line break; without it the
\* Report holds no "Full memory" section.
C5_FullMemorySection ==
    pc = "done" =>
        IF print_full_memory
        THEN EndsWith(ret.msg, "Full memory: [" \o MemoryEntries(result.memory) \o "]\n")
        ELSE ~Contains(ret.msg, "Full memory")

C5_Witness ==
    /\ pc = "done"
    /\ print_full_memory
    /\ result.memory = <<Some(12), None>>
    /\ EndsWith(ret.msg, "Full memory: [12, _, ]\n")

\* C7 as stated: two invocations with the same outcome and the same flags
\* return the same Report, whatever happened to the captured log in between.
C7_SameReportAlways ==
    Len(history) = 2 => history[1].report = history[2].report

\* C7 amended: two invocations with the same outcome and the same flags
\* return the same Report provided that, when use_dbg_print_hint is true, the
\* captured log holds the same text at both invocations.
C7_SameReportGivenSameLog ==
    (Len(history) = 2 /\ (use_dbg_print_hint => history[1].log = history[2].log)) =>
        history[1].report = history[2].report

C7_Witness ==
    /\ Len(history) = 2
    /\ use_dbg_print_hint
    /\ history[1].log = "dbg\n"
    /\ history[2].log = "dbg\n"
    /\ history[1].report = history[2].report
    /\ StartsWith(history[2].report, "dbg\n")

\* In a second invocation without use_dbg_print_hint the log has changed and
\* the Report has not.
C7_WitnessLogIgnored ==
    /\ Len(history) = 2
    /\ ~use_dbg_print_hint
    /\ history[1].log # history[2].log

Newlines(k) == IF k = 0 THEN "" ELSE IF k = 1 THEN "\n" ELSE "\n\n"

\* C10: what was printed is the Report with, when use_dbg_print_hint is true,
\* extra line breaks after the captured log and nothing else changed: the
\* outcome line, the gas line and the memory section with its closing "]" and
\* line break are the same on both channels.
C10_ChannelsAgree ==
    pc = "done" =>
        LET logText == LogSection(SeenLog)
            rest == SubSeq(ret.msg, Len(logText) + 1, Len(ret.msg))
        IN  IF use_dbg_print_hint
            THEN \E k \in 0..2 : stdout = logText \o Newlines(k) \o rest
            ELSE stdout = rest

====
